---------------------------- MODULE Spec2Model ----------------------------
(***************************************************************************)
(* Arkanoid clone ("Arknoid C++11/main.cpp"): Ball, Paddle, Brick, the two *)
(* testCollision overloads and Game::run with its three phases.            *)
(*                                                                         *)
(* Numbers.  The program computes in float.  The model computes in fixed   *)
(* point: a coordinate or a velocity is an integer number of 1/PX pixels   *)
(* (PX = 10, so ballVelocity 0.4f is 4), a time an integer number of 1/MS  *)
(* milliseconds (MS = 2, so ftStep = ftSlice = 1.f is 2 and a frame time   *)
(* of 0.5 ms is 1).  Rounding of float sums is not modelled.               *)
(*                                                                         *)
(* Control.  pc is the position inside Game::run; one action per statement *)
(* of run(), of updatePhase() and of the body of its for loop.             *)
(***************************************************************************)
EXTENDS Integers, Sequences, FiniteSets

\* ------------------------------------------------------------- constants
PX == 10
MS == 2

windowWidth == 800
windowHeight == 600
ballRadius == 10
ballVelocity == 4
paddleWidth == 60
paddleHeight == 20
paddleVelocity == 1
blockWidth == 60
blockHeight == 20
countBlocksX == 11
countBlocksY == 4
ftStep == 1 * MS
ftSlice == 1 * MS

\* --------------------------------------------------------------- bounds
\* iterations of the loop of run() that a behaviour may start
MaxIter == 3
\* simulation steps (bodies of the for loop of updatePhase) in a behaviour
MaxSteps == 3
\* the frame times a measurement may give, in 1/MS ms: 0 to two slices
FrameTimes == 0..(2 * ftSlice)

VARIABLES
    pc,            \* the position in Game::run
    running, lastFT, currentSlice, ball, paddle, bricks,   \* the members of Game
    windowOpen,    \* window.isOpen()
    ev,            \* what the inputPhase() that has just returned observed
    kb,            \* the keys the Paddle::update that has just returned read
    iter,          \* iterations of the loop of run() started
    steps,         \* bodies of the for loop of updatePhase() completed
    fed,           \* the sum of the lastFT added to currentSlice
    keyed,         \* a key was observed held (Left, Right, Space or Escape)
    hit,           \* the positions of the bricks marked destroyed so far
    escIter,       \* the iteration in which Escape was first observed, or 0
    upd,           \* calls of updatePhase() that returned
    drw,           \* calls of drawPhase() that returned
    call           \* the updatePhase() in progress: currentSlice after
                   \* "+= lastFT" and the value of steps at that moment

ctl == <<running, windowOpen, lastFT, currentSlice>>
ent == <<ball, paddle, bricks>>
obs == <<ev, kb>>
cnt == <<iter, steps, fed, upd, drw>>
his == <<keyed, hit, escIter>>
vars == <<pc, ctl, ent, obs, cnt, his, call>>

\* ------------------------------------------------------------- geometry
\* Ball::left/right/top/bottom
BallBox(b) ==
    [left |-> b.x - ballRadius * PX, right |-> b.x + ballRadius * PX,
     top |-> b.y - ballRadius * PX, bottom |-> b.y + ballRadius * PX]

\* Rectangle::left/right/top/bottom for a shape of size w x h
RectBox(r, w, h) ==
    [left |-> r.x - (w * PX) \div 2, right |-> r.x + (w * PX) \div 2,
     top |-> r.y - (h * PX) \div 2, bottom |-> r.y + (h * PX) \div 2]

PaddleBox(p) == RectBox(p, paddleWidth, paddleHeight)
BrickBox(k) == RectBox(k, blockWidth, blockHeight)

\* isIntersecting with mA.top < mB.bottom as its last comparison
isIntersectingStrictTop(mA, mB) ==
    /\ mA.right >= mB.left
    /\ mA.left <= mB.right
    /\ mA.bottom >= mB.top
    /\ mA.top < mB.bottom

isIntersecting(mA, mB) ==
    /\ mA.right >= mB.left
    /\ mA.left <= mB.right
    /\ mA.bottom >= mB.top
    /\ mA.top <= mB.bottom

\* ------------------------------------------------------------- entities
\* Ball::Ball with the member initialiser of velocity
NewBall(mX, mY) == [x |-> mX * PX, y |-> mY * PX, vx |-> -ballVelocity, vy |-> -ballVelocity]

\* Paddle::Paddle; Vector2f velocity is value-initialised to (0, 0)
NewPaddle(mX, mY) == [x |-> mX * PX, y |-> mY * PX, vx |-> 0]

\* Brick::Brick
NewBrick(mX, mY) == [x |-> mX * PX, y |-> mY * PX, destroyed |-> FALSE]

\* a reset that rebuilds the ball as the constructor does
resetBallAsNew(b) == NewBall(windowWidth \div 2, windowHeight \div 2)

\* Ball::resetBall
resetBall(b) ==
    [b EXCEPT !.x = (windowWidth \div 2) * PX, !.y = (windowHeight \div 2) * PX,
              !.vy = -ballVelocity]

\* Ball::update with the side walls stopping the ball instead of reflecting it
BallUpdateStop(b, mFT) ==
    LET m == [b EXCEPT !.x = b.x + (b.vx * mFT) \div MS, !.y = b.y + (b.vy * mFT) \div MS]
        box == BallBox(m)
        b2 == IF box.left < 0 \/ box.right > windowWidth * PX THEN [m EXCEPT !.vx = 0] ELSE m
        b3 == IF box.top < 0 THEN [b2 EXCEPT !.vy = -b2.vy] ELSE b2
    IN b3

\* Ball::update with left() <= 0 and right() >= windowWidth as the wall tests
BallUpdateInclusive(b, mFT) ==
    LET m == [b EXCEPT !.x = b.x + (b.vx * mFT) \div MS, !.y = b.y + (b.vy * mFT) \div MS]
        box == BallBox(m)
        b2 == IF box.left <= 0 \/ box.right >= windowWidth * PX
              THEN [m EXCEPT !.vx = -m.vx] ELSE m
        b3 == IF box.top < 0 THEN [b2 EXCEPT !.vy = -b2.vy] ELSE b2
    IN b3

\* Ball::update reflecting the ball at the bottom of the window too
BallUpdateBounceBottom(b, mFT) ==
    LET m == [b EXCEPT !.x = b.x + (b.vx * mFT) \div MS, !.y = b.y + (b.vy * mFT) \div MS]
        box == BallBox(m)
        b1 == IF box.bottom > windowHeight * PX THEN [m EXCEPT !.vy = -m.vy] ELSE m
        b2 == IF box.left < 0 \/ box.right > windowWidth * PX
              THEN [b1 EXCEPT !.vx = -b1.vx] ELSE b1
        b3 == IF box.top < 0 THEN [b2 EXCEPT !.vy = -b2.vy] ELSE b2
    IN b3

\* Ball::update: the value it returns, which updatePhase() discards
BallUpdateReturns(b, mFT) == TRUE

\* Ball::update: shape.move(velocity * mFT), then the three boundary tests
BallUpdate(b, mFT) ==
    LET m == [b EXCEPT !.x = b.x + (b.vx * mFT) \div MS, !.y = b.y + (b.vy * mFT) \div MS]
        box == BallBox(m)
        \* if(bottom() > windowHeight) velocity.y = velocity.y;
        b1 == IF box.bottom > windowHeight * PX THEN [m EXCEPT !.vy = m.vy] ELSE m
        b2 == IF box.left < 0 \/ box.right > windowWidth * PX
              THEN [b1 EXCEPT !.vx = -b1.vx] ELSE b1
        b3 == IF box.top < 0 THEN [b2 EXCEPT !.vy = -b2.vy] ELSE b2
    IN b3

\* Paddle::update with left() >= 0 and right() <= windowWidth as the tests
PaddleUpdateInclusive(p, mFT, left, right) ==
    LET m == [p EXCEPT !.x = p.x + (p.vx * mFT) \div MS]
        box == PaddleBox(m)
    IN IF left /\ box.left >= 0 THEN [m EXCEPT !.vx = -paddleVelocity * PX]
       ELSE IF right /\ box.right <= windowWidth * PX THEN [m EXCEPT !.vx = paddleVelocity * PX]
       ELSE [m EXCEPT !.vx = 0]

\* Paddle::update with the velocity taken from the keys before the move
PaddleUpdateSteerFirst(p, mFT, left, right) ==
    LET box == PaddleBox(p)
        v == IF left /\ box.left > 0 THEN -paddleVelocity * PX
             ELSE IF right /\ box.right < windowWidth * PX THEN paddleVelocity * PX
             ELSE 0
    IN [p EXCEPT !.vx = v, !.x = p.x + (v * mFT) \div MS]

\* Paddle::update: shape.move(velocity * mFT), then the velocity from the keys
PaddleUpdate(p, mFT, left, right) ==
    LET m == [p EXCEPT !.x = p.x + (p.vx * mFT) \div MS]
        box == PaddleBox(m)
    IN IF left /\ box.left > 0 THEN [m EXCEPT !.vx = -paddleVelocity * PX]
       ELSE IF right /\ box.right < windowWidth * PX THEN [m EXCEPT !.vx = paddleVelocity * PX]
       ELSE [m EXCEPT !.vx = 0]

\* testCollision(Paddle&, Ball&) with mBall.x() <= mPaddle.x() as the side test
testCollisionPaddleLeq(mPaddle, mBall) ==
    IF ~isIntersecting(PaddleBox(mPaddle), BallBox(mBall)) THEN mBall
    ELSE LET up == [mBall EXCEPT !.vy = -ballVelocity]
         IN IF mBall.x <= mPaddle.x THEN [up EXCEPT !.vx = -ballVelocity]
            ELSE [up EXCEPT !.vx = ballVelocity]

\* testCollision(Paddle&, Ball&): the ball afterwards
testCollisionPaddle(mPaddle, mBall) ==
    IF ~isIntersecting(PaddleBox(mPaddle), BallBox(mBall)) THEN mBall
    ELSE LET up == [mBall EXCEPT !.vy = -ballVelocity]
         IN IF mBall.x < mPaddle.x THEN [up EXCEPT !.vx = -ballVelocity]
            ELSE [up EXCEPT !.vx = ballVelocity]

\* the horizontal component assigned when the two smallest overlaps are equal
testCollisionBrickTieX(mBrick, mBall) ==
    IF ~isIntersecting(BrickBox(mBrick), BallBox(mBall))
    THEN [brick |-> mBrick, ball |-> mBall]
    ELSE LET k == BrickBox(mBrick)
             b == BallBox(mBall)
             overlapLeft == b.right - k.left
             overlapRight == k.right - b.left
             overlapTop == b.bottom - k.top
             overlapBottom == k.bottom - b.top
             ballFromLeft == overlapLeft < overlapRight
             ballFromTop == overlapTop < overlapBottom
             minOverlapX == IF ballFromLeft THEN overlapLeft ELSE overlapRight
             minOverlapY == IF ballFromTop THEN overlapTop ELSE overlapBottom
         IN [brick |-> [mBrick EXCEPT !.destroyed = TRUE],
             ball |-> IF minOverlapX <= minOverlapY
                      THEN [mBall EXCEPT !.vx = IF ballFromLeft THEN -ballVelocity
                                                ELSE ballVelocity]
                      ELSE [mBall EXCEPT !.vy = IF ballFromTop THEN -ballVelocity
                                                ELSE ballVelocity]]

\* testCollision(Brick&, Ball&): the brick and the ball afterwards
testCollisionBrick(mBrick, mBall) ==
    IF ~isIntersecting(BrickBox(mBrick), BallBox(mBall))
    THEN [brick |-> mBrick, ball |-> mBall]
    ELSE LET k == BrickBox(mBrick)
             b == BallBox(mBall)
             overlapLeft == b.right - k.left
             overlapRight == k.right - b.left
             overlapTop == b.bottom - k.top
             overlapBottom == k.bottom - b.top
             ballFromLeft == overlapLeft < overlapRight
             ballFromTop == overlapTop < overlapBottom
             minOverlapX == IF ballFromLeft THEN overlapLeft ELSE overlapRight
             minOverlapY == IF ballFromTop THEN overlapTop ELSE overlapBottom
         IN [brick |-> [mBrick EXCEPT !.destroyed = TRUE],
             ball |-> IF minOverlapX < minOverlapY
                      THEN [mBall EXCEPT !.vx = IF ballFromLeft THEN -ballVelocity
                                                ELSE ballVelocity]
                      ELSE [mBall EXCEPT !.vy = IF ballFromTop THEN -ballVelocity
                                                ELSE ballVelocity]]

\* for (auto &brick : bricks) testCollision(brick, ball);
RECURSIVE TestBricksFrom(_, _, _)
TestBricksFrom(bs, b, i) ==
    IF i > Len(bs) THEN [bricks |-> bs, ball |-> b]
    ELSE LET r == testCollisionBrick(bs[i], b)
         IN TestBricksFrom([bs EXCEPT ![i] = r.brick], r.ball, i + 1)

\* the brick tests stopping at the first brick that is hit
RECURSIVE FirstHitFrom(_, _, _)
FirstHitFrom(bs, b, i) ==
    IF i > Len(bs) THEN [bricks |-> bs, ball |-> b]
    ELSE LET r == testCollisionBrick(bs[i], b)
         IN IF r.brick.destroyed THEN [bricks |-> [bs EXCEPT ![i] = r.brick], ball |-> r.ball]
            ELSE FirstHitFrom(bs, b, i + 1)

TestBricksFirstHit(bs, b) == FirstHitFrom(bs, b, 1)

TestBricks(bs, b) == TestBricksFrom(bs, b, 1)

\* remove_if without the erase of what it found: nothing leaves the vector
EraseNothing(bs) == bs

\* an erase that does not keep the order of the bricks that stay
RECURSIVE EraseUnstable(_)
EraseUnstable(bs) ==
    IF bs = <<>> THEN <<>>
    ELSE IF Head(bs).destroyed THEN EraseUnstable(Tail(bs))
    ELSE EraseUnstable(Tail(bs)) \o <<Head(bs)>>

\* bricks.erase(remove_if(begin, end, destroyed), end)
RECURSIVE EraseDestroyed(_)
EraseDestroyed(bs) ==
    IF bs = <<>> THEN <<>>
    ELSE IF Head(bs).destroyed THEN EraseDestroyed(Tail(bs))
    ELSE <<Head(bs)>> \o EraseDestroyed(Tail(bs))

\* the body of the for loop of updatePhase() on e = [ball, paddle, bricks] with
\* the keys left and right: ball update, paddle update, paddle test, brick
\* tests, erase
StepBody(e, left, right) ==
    LET b1 == BallUpdate(e.ball, ftStep)
        p1 == PaddleUpdate(e.paddle, ftStep, left, right)
        b2 == testCollisionPaddle(p1, b1)
        r == TestBricks(e.bricks, b2)
    IN [ball |-> r.ball, paddle |-> p1, bricks |-> EraseDestroyed(r.bricks)]

\* Game::Game: the wall, iX outer, iY inner
BrickGrid ==
    [i \in 1..(countBlocksX * countBlocksY) |->
        LET iX == (i - 1) \div countBlocksY
            iY == (i - 1) % countBlocksY
        IN NewBrick((iX + 1) * (blockWidth + 3) + 22, (iY + 2) * (blockHeight + 3))]

NoEvents == [closed |-> FALSE, esc |-> FALSE, space |-> FALSE]
NoKeys == [left |-> FALSE, right |-> FALSE]
\* no updatePhase() is in progress
NoCall == [acc |-> 0, steps |-> 0]

\* --------------------------------------------------------------- Game
\* the members of Game with lastFT constructed as one slice
InitOneSlice ==
    /\ pc = "main"
    /\ running = FALSE
    /\ windowOpen = TRUE
    /\ lastFT = ftSlice
    /\ currentSlice = 0
    /\ ball = NewBall(windowWidth \div 2, windowHeight \div 2)
    /\ paddle = NewPaddle(windowWidth \div 2, windowHeight - 50)
    /\ bricks = BrickGrid
    /\ ev = NoEvents
    /\ kb = NoKeys
    /\ iter = 0
    /\ steps = 0
    /\ fed = 0
    /\ keyed = FALSE
    /\ hit = {}
    /\ escIter = 0
    /\ upd = 0
    /\ drw = 0
    /\ call = NoCall

\* the members of Game after Game{} and before run()
Init ==
    /\ pc = "main"
    /\ running = FALSE
    /\ windowOpen = TRUE
    /\ lastFT = 0
    /\ currentSlice = 0
    /\ ball = NewBall(windowWidth \div 2, windowHeight \div 2)
    /\ paddle = NewPaddle(windowWidth \div 2, windowHeight - 50)
    /\ bricks = BrickGrid
    /\ ev = NoEvents
    /\ kb = NoKeys
    /\ iter = 0
    /\ steps = 0
    /\ fed = 0
    /\ keyed = FALSE
    /\ hit = {}
    /\ escIter = 0
    /\ upd = 0
    /\ drw = 0
    /\ call = NoCall

\* ------------------------------------------------------------- mid-game
\* The wall after the bricks with the indices in gone were destroyed.
RECURSIVE WallFrom(_, _)
WallFrom(i, gone) ==
    IF i > Len(BrickGrid) THEN <<>>
    ELSE (IF i \in gone THEN <<>> ELSE <<BrickGrid[i]>>) \o WallFrom(i + 1, gone)

Wall(gone) == WallFrom(1, gone)

MidBall(x, y, sx, sy) == [x |-> x, y |-> y, vx |-> sx * ballVelocity, vy |-> sy * ballVelocity]
MidPaddle(x, vx) == [x |-> x, y |-> (windowHeight - 50) * PX, vx |-> vx]

\* States of a game in progress, each at the loop test of run() after an
\* iteration that measured one slice. The ball is one step short of the two
\* bricks it meets first (step 412 of an untouched game), then two steps short
\* of the left wall (step 974), of the right wall, of the top, of the paddle
\* left of its centre and on its centre, and of the bottom; the paddle at rest
\* or moving next to a wall.
Scenes ==
    { [ball |-> MidBall(2352, 1352, -1, -1), paddle |-> MidPaddle(4000, 0), bricks |-> BrickGrid],
      [ball |-> MidBall(104, 3592, -1, 1), paddle |-> MidPaddle(310, -paddleVelocity * PX),
       bricks |-> Wall({12, 16})],
      [ball |-> MidBall(7896, 3000, 1, 1), paddle |-> MidPaddle(7690, paddleVelocity * PX),
       bricks |-> Wall({12, 16})],
      [ball |-> MidBall(300, 104, -1, -1), paddle |-> MidPaddle(4000, 0), bricks |-> Wall({12, 16})],
      [ball |-> MidBall(3796, 5296, 1, 1), paddle |-> MidPaddle(4000, 0), bricks |-> Wall({12, 16})],
      [ball |-> MidBall(4004, 5296, -1, 1), paddle |-> MidPaddle(4000, 0), bricks |-> Wall({12, 16})],
      [ball |-> MidBall(6000, 5896, 1, 1), paddle |-> MidPaddle(4000, 0), bricks |-> Wall({12, 16})] }

\* More states of a game in progress, at the same point of run(). The ball is
\* one step short of the two bricks it meets first, of the left side of the
\* first column (two bricks), of the lower left corner of a brick (both
\* overlaps equal), of the top of a brick, of the right side of the last
\* column, and of two bricks of a row that it meets from below and from the
\* side. In the last scene the ball is at the left wall, lower than the top
\* of the paddle, and the paddle has moved into it from the right.
ContactScenes ==
    { [ball |-> MidBall(2352, 1352, -1, -1), paddle |-> MidPaddle(4000, 0), bricks |-> BrickGrid],
      [ball |-> MidBall(448, 800, 1, -1), paddle |-> MidPaddle(4000, 0), bricks |-> Wall({12, 16})],
      [ball |-> MidBall(448, 1352, 1, -1), paddle |-> MidPaddle(4000, 0), bricks |-> Wall({12, 16})],
      [ball |-> MidBall(2112, 256, 1, 1), paddle |-> MidPaddle(4000, 0), bricks |-> Wall({12, 16})],
      [ball |-> MidBall(7552, 800, -1, -1), paddle |-> MidPaddle(4000, 0), bricks |-> Wall({12, 16})],
      [ball |-> MidBall(2336, 1352, 1, -1), paddle |-> MidPaddle(4000, 0), bricks |-> BrickGrid],
      [ball |-> MidBall(100, 5396, -1, -1), paddle |-> MidPaddle(420, -paddleVelocity * PX),
       bricks |-> Wall({12, 16})] }

InitScene ==
    \/ Init
    \/ /\ pc = "while"
       /\ running = TRUE
       /\ windowOpen = TRUE
       /\ lastFT = ftSlice
       /\ currentSlice = 0
       /\ \E s \in Scenes :
             /\ ball = s.ball
             /\ paddle = s.paddle
             /\ bricks = s.bricks
       /\ ev = NoEvents
       /\ kb = NoKeys
       /\ iter = 1
       /\ steps = 0
       /\ fed = 0
       /\ keyed = FALSE
       /\ hit = {}
       /\ escIter = 0
       /\ upd = 1
       /\ drw = 1
       /\ call = NoCall

InitContact ==
    \/ Init
    \/ /\ pc = "while"
       /\ running = TRUE
       /\ windowOpen = TRUE
       /\ lastFT = ftSlice
       /\ currentSlice = 0
       /\ \E s \in ContactScenes :
             /\ ball = s.ball
             /\ paddle = s.paddle
             /\ bricks = s.bricks
       /\ ev = NoEvents
       /\ kb = NoKeys
       /\ iter = 1
       /\ steps = 0
       /\ fed = 0
       /\ keyed = FALSE
       /\ hit = {}
       /\ escIter = 0
       /\ upd = 1
       /\ drw = 1
       /\ call = NoCall

\* run(): running = true
Run ==
    /\ pc = "main"
    /\ running' = TRUE
    /\ pc' = "while"
    /\ UNCHANGED <<windowOpen, lastFT, currentSlice, ent, obs, cnt, his, call>>

\* while(running): one more iteration begins
WhileEnter ==
    /\ pc = "while"
    /\ running
    /\ iter < MaxIter
    /\ iter' = iter + 1
    /\ pc' = "input"
    /\ UNCHANGED <<ctl, ent, obs, steps, fed, upd, drw, his, call>>

\* while(running): the loop is left and run() returns
WhileExit ==
    /\ pc = "while"
    /\ ~running
    /\ pc' = "done"
    /\ UNCHANGED <<ctl, ent, obs, cnt, his, call>>

\* inputPhase() with Escape leaving run() at once
InputPhaseBreak ==
    /\ pc = "input"
    /\ \E closed \in (IF windowOpen THEN BOOLEAN ELSE {FALSE}), esc \in BOOLEAN, space \in BOOLEAN :
          /\ ev' = [closed |-> closed, esc |-> esc, space |-> space]
          /\ windowOpen' = (windowOpen /\ ~closed)
          /\ running' = IF esc THEN FALSE ELSE running
          /\ ball' = IF space THEN resetBall(ball) ELSE ball
          /\ keyed' = (keyed \/ esc \/ space)
          /\ escIter' = IF esc /\ escIter = 0 THEN iter ELSE escIter
          /\ pc' = IF esc THEN "done" ELSE "update"
    /\ UNCHANGED <<lastFT, currentSlice, paddle, bricks, kb, cnt, hit, call>>

\* inputPhase(): the event queue is drained (Event::Closed closes the window),
\* then Escape and Space are read
InputPhase ==
    /\ pc = "input"
    /\ \E closed \in (IF windowOpen THEN BOOLEAN ELSE {FALSE}), esc \in BOOLEAN, space \in BOOLEAN :
          /\ ev' = [closed |-> closed, esc |-> esc, space |-> space]
          /\ windowOpen' = (windowOpen /\ ~closed)
          /\ running' = IF esc THEN FALSE ELSE running
          /\ ball' = IF space THEN resetBall(ball) ELSE ball
          /\ keyed' = (keyed \/ esc \/ space)
          /\ escIter' = IF esc /\ escIter = 0 THEN iter ELSE escIter
    /\ pc' = "update"
    /\ UNCHANGED <<lastFT, currentSlice, paddle, bricks, kb, cnt, hit, call>>

\* updatePhase() with currentSlice = lastFT: the leftover of the frame before is lost
UpdatePhaseAssign ==
    /\ pc = "update"
    /\ currentSlice' = lastFT
    /\ fed' = fed + lastFT
    /\ call' = [acc |-> currentSlice', steps |-> steps]
    /\ ev' = NoEvents
    /\ pc' = "for"
    /\ UNCHANGED <<running, windowOpen, lastFT, ent, kb, iter, steps, upd, drw, his>>

\* updatePhase(): currentSlice += lastFT
UpdatePhase ==
    /\ pc = "update"
    /\ currentSlice' = currentSlice + lastFT
    /\ fed' = fed + lastFT
    /\ call' = [acc |-> currentSlice', steps |-> steps]
    /\ ev' = NoEvents
    /\ pc' = "for"
    /\ UNCHANGED <<running, windowOpen, lastFT, ent, kb, iter, steps, upd, drw, his>>

\* for (; currentSlice >= ftSlice; ...): the body is entered
ForEnter ==
    /\ pc = "for"
    /\ currentSlice >= ftSlice
    /\ pc' = "ballUpdate"
    /\ UNCHANGED <<ctl, ent, obs, cnt, his, call>>

\* the loop left as soon as currentSlice is not above ftSlice
ForExitStrict ==
    /\ pc = "for"
    /\ ~(currentSlice > ftSlice)
    /\ upd' = upd + 1
    /\ pc' = "draw"
    /\ UNCHANGED <<ctl, ent, obs, iter, steps, fed, drw, his, call>>

\* for (; currentSlice >= ftSlice; ...): updatePhase() returns
ForExit ==
    /\ pc = "for"
    /\ ~(currentSlice >= ftSlice)
    /\ upd' = upd + 1
    /\ pc' = "draw"
    /\ UNCHANGED <<ctl, ent, obs, iter, steps, fed, drw, his, call>>

\* ball.update(ftStep)
StepBall ==
    /\ pc = "ballUpdate"
    /\ ball' = BallUpdate(ball, ftStep)
    /\ pc' = "paddleUpdate"
    /\ UNCHANGED <<ctl, paddle, bricks, obs, cnt, his, call>>

\* paddle.update(ftStep), which reads Left and Right
StepPaddle ==
    /\ pc = "paddleUpdate"
    /\ \E left \in BOOLEAN, right \in BOOLEAN :
          /\ kb' = [left |-> left, right |-> right]
          /\ paddle' = PaddleUpdate(paddle, ftStep, left, right)
          /\ keyed' = (keyed \/ left \/ right)
    /\ pc' = "testPaddle"
    /\ UNCHANGED <<ctl, ball, bricks, ev, cnt, hit, escIter, call>>

\* testCollision(paddle, ball) as the last test of the step
StepTestPaddleThenErase ==
    /\ pc = "testPaddle"
    /\ ball' = testCollisionPaddle(paddle, ball)
    /\ kb' = NoKeys
    /\ pc' = "erase"
    /\ UNCHANGED <<ctl, paddle, bricks, ev, cnt, his, call>>

\* testCollision(paddle, ball)
StepTestPaddle ==
    /\ pc = "testPaddle"
    /\ ball' = testCollisionPaddle(paddle, ball)
    /\ kb' = NoKeys
    /\ pc' = "testBricks"
    /\ UNCHANGED <<ctl, paddle, bricks, ev, cnt, his, call>>

\* for (auto &brick : bricks) testCollision(brick, ball)
StepTestBricks ==
    /\ pc = "testBricks"
    /\ LET r == TestBricks(bricks, ball)
       IN /\ bricks' = r.bricks
          /\ ball' = r.ball
    /\ hit' = hit \cup {<<bricks'[i].x, bricks'[i].y>> :
                          i \in {j \in 1..Len(bricks') : bricks'[j].destroyed}}
    /\ pc' = "erase"
    /\ UNCHANGED <<ctl, paddle, obs, cnt, keyed, escIter, call>>

\* bricks.erase(remove_if(...)), then the loop's currentSlice -= ftSlice
StepErase ==
    /\ pc = "erase"
    /\ bricks' = EraseDestroyed(bricks)
    /\ currentSlice' = currentSlice - ftSlice
    /\ steps' = steps + 1
    /\ pc' = "for"
    /\ UNCHANGED <<running, windowOpen, lastFT, ball, paddle, obs, iter, fed, upd, drw, his, call>>

\* drawPhase()
DrawPhase ==
    /\ pc = "draw"
    /\ drw' = drw + 1
    /\ call' = NoCall
    /\ pc' = "measure"
    /\ UNCHANGED <<ctl, ent, obs, iter, steps, fed, upd, his>>

\* lastFT = ft: the measured duration of this iteration
MeasureFT ==
    /\ pc = "measure"
    /\ \E ft \in FrameTimes :
          /\ steps + (currentSlice + ft) \div ftSlice <= MaxSteps
          /\ lastFT' = ft
    /\ pc' = "while"
    /\ UNCHANGED <<running, windowOpen, currentSlice, ent, obs, cnt, his, call>>

Next ==
    \/ Run
    \/ WhileEnter
    \/ WhileExit
    \/ InputPhase
    \/ UpdatePhase
    \/ ForEnter
    \/ ForExit
    \/ StepBall
    \/ StepPaddle
    \/ StepTestPaddle
    \/ StepTestBricks
    \/ StepErase
    \/ DrawPhase
    \/ MeasureFT

Spec == Init /\ [][Next]_vars

\* the same program from the construction or from a game in progress
SpecScene == InitScene /\ [][Next]_vars
SpecContact == InitContact /\ [][Next]_vars

\* ------------------------------------------------------------- properties
Positions(bs) == {<<bs[i].x, bs[i].y>> : i \in 1..Len(bs)}
Destroyed(bs) == {i \in 1..Len(bs) : bs[i].destroyed}

\* C1: in every reachable state each component of the ball's velocity has the
\* magnitude ballVelocity; only its sign changes.
C1_SpeedOnEachAxis ==
    /\ ball.vx \in {-ballVelocity, ballVelocity}
    /\ ball.vy \in {-ballVelocity, ballVelocity}

\* the ball has just been reflected by the left wall
C1_Witness ==
    /\ pc = "paddleUpdate"
    /\ BallBox(ball).left < 0
    /\ ball.vx = ballVelocity

\* C2: whatever Left/Right are, the paddle never leaves the window:
\* left() >= 0 and right() <= windowWidth, i.e. its centre x lies in
\* [paddleWidth/2, windowWidth - paddleWidth/2].
C2_PaddleInsideWindow ==
    /\ PaddleBox(paddle).left >= 0
    /\ PaddleBox(paddle).right <= windowWidth * PX
    /\ paddle.x >= (paddleWidth * PX) \div 2
    /\ paddle.x <= windowWidth * PX - (paddleWidth * PX) \div 2

\* Paddle::update has just read Left held with the paddle against the left wall
C2_Witness ==
    /\ pc = "testPaddle"
    /\ kb.left
    /\ PaddleBox(paddle).left = 0
    /\ paddle.vx = 0

\* C3: outside the window between the brick tests of a step and its erase, the
\* vector holds no brick with destroyed = true and no brick that was ever
\* marked destroyed; so a brick hit in one step is in no later step's tests,
\* and is marked at most once.
C3_DestroyedBricksAreGone ==
    /\ pc # "erase" => Destroyed(bricks) = {}
    /\ pc # "erase" => Positions(bricks) \cap hit = {}
    /\ pc = "erase" => \A i \in 1..Len(bricks) :
                          bricks[i].destroyed <=> <<bricks[i].x, bricks[i].y>> \in hit

\* the brick tests of a later step have run on a wall that lost two bricks
C3_Witness ==
    /\ pc = "erase"
    /\ Cardinality(hit) = 2
    /\ Destroyed(bricks) = {}
    /\ Len(bricks) = Len(BrickGrid) - 2

\* k bodies of the for loop with no key held, from the entities e
RECURSIVE IdleSteps(_, _)
IdleSteps(e, k) == IF k = 0 THEN e ELSE IdleSteps(StepBody(e, FALSE, FALSE), k - 1)

Constructed ==
    [ball |-> NewBall(windowWidth \div 2, windowHeight \div 2),
     paddle |-> NewPaddle(windowWidth \div 2, windowHeight - 50),
     bricks |-> BrickGrid]

C5_CloseStopsTheLoop == (pc = "update" /\ ev.closed) => ~running

Max(a, b) == IF a >= b THEN a ELSE b
Min(a, b) == IF a <= b THEN a ELSE b

\* the horizontal extents share a point and the vertical extents share a point
Overlap(a, b) ==
    /\ Max(a.left, b.left) <= Min(a.right, b.right)
    /\ Max(a.top, b.top) <= Min(a.bottom, b.bottom)

SymmetricInclusive(a, b) ==
    /\ isIntersecting(a, b) = isIntersecting(b, a)
    /\ isIntersecting(a, b) = Overlap(a, b)

\* C6: for the ball, the paddle and every brick, wherever they are,
\* isIntersecting gives the same answer in both orders, and it is true exactly
\* when the horizontal and the vertical extents overlap, touching included.
C6_IntersectionSymmetricInclusive ==
    /\ SymmetricInclusive(BallBox(ball), PaddleBox(paddle))
    /\ \A i \in 1..Len(bricks) :
          /\ SymmetricInclusive(BallBox(ball), BrickBox(bricks[i]))
          /\ SymmetricInclusive(PaddleBox(paddle), BrickBox(bricks[i]))

\* the ball's bottom edge is exactly on the paddle's top edge, and they intersect
C6_Witness ==
    /\ pc = "testPaddle"
    /\ BallBox(ball).bottom = PaddleBox(paddle).top
    /\ isIntersecting(PaddleBox(paddle), BallBox(ball))
    /\ isIntersecting(BallBox(ball), PaddleBox(paddle))

\* C7 (amended): Ball::update moves the ball by its velocity, so from
\* (400, 300) with velocity (-0.4, -0.4) one step of size 1 ends at
\* (399.6, 299.6); the horizontal velocity of a ball moving left becomes +0.4
\* in the step whose move puts left() strictly below 0 (centre x < 10), and a
\* move that ends inside or on the side walls (left() >= 0, right() <=
\* windowWidth, so also centre x = 10) leaves it unchanged.
C7_MoveThenReflectBelowZero ==
    [][pc = "ballUpdate" =>
          /\ ball'.x = ball.x + ball.vx
          /\ ball'.y = ball.y + ball.vy
          /\ (ball = NewBall(400, 300) => ball'.x = 3996 /\ ball'.y = 2996)
          /\ (ball.vx < 0 /\ BallBox(ball').left < 0 => ball'.vx = ballVelocity)
          /\ (BallBox(ball').left >= 0 /\ BallBox(ball').right <= windowWidth * PX
                => ball'.vx = ball.vx)]_vars

\* the ball went from centre x = 10 to 9.6 and now moves right
C7_Witness ==
    /\ pc = "paddleUpdate"
    /\ steps = 1
    /\ ball.x = 96
    /\ ball.vx = ballVelocity

\* C7 as stated: the velocity flips in the step that ends with left() <= 0.
C7_FlipsWhenEdgeIsReached ==
    [][(pc = "ballUpdate" /\ ball.vx < 0 /\ BallBox(ball').left <= 0)
          => ball'.vx = ballVelocity]_vars

\* C8: testCollision(paddle, ball) leaves the ball as it is when the two do not
\* intersect; when they do, velocity.y becomes -ballVelocity and velocity.x
\* -ballVelocity if the ball's centre is left of the paddle's, else
\* +ballVelocity (equal centres too); positions and the paddle are untouched.
C8_PaddleBounce ==
    [][pc = "testPaddle" =>
          /\ (~Overlap(PaddleBox(paddle), BallBox(ball)) => ball' = ball)
          /\ (Overlap(PaddleBox(paddle), BallBox(ball)) =>
                /\ ball'.vy = -ballVelocity
                /\ ball'.vx = IF ball.x < paddle.x THEN -ballVelocity ELSE ballVelocity)
          /\ ball'.x = ball.x
          /\ ball'.y = ball.y
          /\ paddle' = paddle
          /\ bricks' = bricks]_vars

\* paddle at x = 400, ball at x = 380 on the paddle: the ball leaves up and left
C8_Witness ==
    /\ pc = "testBricks"
    /\ steps = 0
    /\ paddle.x = 400 * PX
    /\ ball.x = 380 * PX
    /\ BallBox(ball).bottom = PaddleBox(paddle).top
    /\ ball.vx = -ballVelocity
    /\ ball.vy = -ballVelocity

\* C9 (amended): Paddle::update first moves the paddle by the velocity chosen
\* in the previous update (0 at the start), then chooses the velocity from the
\* keys it reads: -paddleVelocity for Left if left() > 0 after the move,
\* +paddleVelocity for Right if right() < windowWidth after the move, else 0.
C9_MoveThenSteer ==
    [][pc = "paddleUpdate" =>
          /\ paddle'.x = paddle.x + (paddle.vx * ftStep) \div MS
          /\ paddle'.y = paddle.y
          /\ paddle'.vx = IF kb'.left /\ PaddleBox(paddle').left > 0
                          THEN -paddleVelocity * PX
                          ELSE IF kb'.right /\ PaddleBox(paddle').right < windowWidth * PX
                          THEN paddleVelocity * PX
                          ELSE 0]_vars

\* the second step read no key and moved the paddle that the first step steered
C9_Witness ==
    /\ pc = "testPaddle"
    /\ steps = 1
    /\ kb = NoKeys
    /\ paddle.x = (windowWidth \div 2) * PX - paddleVelocity * PX
    /\ paddle.vx = 0

\* C9 as stated: the paddle moves in a step by the velocity chosen from the
\* keys read in that step.
C9_MovesByThisStepsKeys ==
    [][pc = "paddleUpdate" => paddle'.x - paddle.x = (paddle'.vx * ftStep) \div MS]_vars

\* C10: once Escape is observed running is false and no further iteration
\* starts; when run() has returned, every iteration that started, the one that
\* observed Escape included, has completed its updatePhase() (the accumulator
\* is below one slice) and its drawPhase().
C10_EscapeEndsAfterTheIteration ==
    /\ escIter # 0 => (~running /\ iter = escIter)
    /\ (~running /\ pc # "main") => escIter # 0
    /\ (~running /\ pc \in {"measure", "while", "done"}) => (upd = iter /\ drw = iter)
    /\ pc = "done" => (escIter = iter /\ upd = iter /\ drw = iter /\ currentSlice < ftSlice)

\* run() has returned after Escape in the second iteration, which ran a step
C10_Witness ==
    /\ pc = "done"
    /\ escIter = 2
    /\ steps >= 1
    /\ upd = 2
    /\ drw = 2


Overlaps(mBrick, mBall) ==
    LET k == BrickBox(mBrick)
        b == BallBox(mBall)
    IN [left |-> b.right - k.left, right |-> k.right - b.left,
        top |-> b.bottom - k.top, bottom |-> k.bottom - b.top]

\* the resolution of the pair assigns the component and the value the rule
\* of the claim gives, and nothing else of the ball
BrickRule(mBrick, mBall) ==
    LET r == testCollisionBrick(mBrick, mBall)
        o == Overlaps(mBrick, mBall)
        minX == Min(o.left, o.right)
        minY == Min(o.top, o.bottom)
    IN IF ~Overlap(BrickBox(mBrick), BallBox(mBall))
       THEN r.brick = mBrick /\ r.ball = mBall
       ELSE /\ r.ball.x = mBall.x
            /\ r.ball.y = mBall.y
            /\ minX < minY =>
                  /\ r.ball.vx = (IF o.left < o.right THEN -ballVelocity ELSE ballVelocity)
                  /\ r.ball.vy = mBall.vy
            /\ ~(minX < minY) =>
                  /\ r.ball.vy = (IF o.top < o.bottom THEN -ballVelocity ELSE ballVelocity)
                  /\ r.ball.vx = mBall.vx

\* C12: for every brick of the collection and the ball as the brick tests
\* of a step find it and as they leave it, the brick-ball resolution changes
\* nothing when the two boxes do not intersect, and otherwise assigns
\* exactly one velocity component: the
\* horizontal one (-ballVelocity if overlapLeft < overlapRight, else
\* +ballVelocity) if the smaller horizontal overlap is strictly smaller than
\* the smaller vertical one, else (equality included) the vertical one
\* (-ballVelocity if overlapTop < overlapBottom, else +ballVelocity).
C12_BrickResolution ==
    pc \in {"testBricks", "erase"} =>
       \A i \in 1..Len(bricks) : BrickRule(bricks[i], ball)

\* the tests of a step have just resolved a brick whose smallest horizontal
\* and vertical overlaps with the ball are equal: the vertical component
\* was assigned and the horizontal one kept
C12_Witness ==
    /\ pc = "erase"
    /\ ball.vx = ballVelocity
    /\ ball.vy = ballVelocity
    /\ \E i \in 1..Len(bricks) :
          LET o == Overlaps(bricks[i], ball)
          IN /\ bricks[i].destroyed
             /\ Min(o.left, o.right) = Min(o.top, o.bottom)

\* C13: an inputPhase() that observes Space held puts the ball at the centre
\* of the window, (windowWidth / 2, windowHeight / 2), and sets its vertical
\* velocity to -ballVelocity; the reset leaves the ball's horizontal
\* velocity, the paddle, the bricks, the accumulator and (Escape not being
\* held too) the running flag as they were.
C13_ResetBall ==
    [][(pc = "input" /\ ev'.space) =>
          /\ ball'.x = (windowWidth * PX) \div 2
          /\ ball'.y = (windowHeight * PX) \div 2
          /\ ball'.vy = -ballVelocity
          /\ ball'.vx = ball.vx
          /\ paddle' = paddle
          /\ bricks' = bricks
          /\ currentSlice' = currentSlice
          /\ lastFT' = lastFT
          /\ (~ev'.esc => running' = running)]_vars

\* Space was observed after the ball had moved, while it was travelling to
\* the right: it is back at the centre, going up and still to the right
C13_Witness ==
    /\ pc = "update"
    /\ ev.space
    /\ ~ev.esc
    /\ running
    /\ steps >= 1
    /\ ball = [x |-> 4000, y |-> 3000, vx |-> ballVelocity, vy |-> -ballVelocity]

\* the distance the ball travels on one axis in one step
StepTravel == (ballVelocity * ftStep) \div MS

\* C14: in every reachable state the ball's box extends past the left edge
\* (0), the right edge (windowWidth) or the top edge (0) of the window by at
\* most one step's travel, ballVelocity * ftStep, collisions with the paddle
\* and the bricks included.
C14_BallWithinOneStepOfTheWindow ==
    /\ BallBox(ball).left >= -StepTravel
    /\ BallBox(ball).right <= windowWidth * PX + StepTravel
    /\ BallBox(ball).top >= -StepTravel

\* the bricks of bs whose box and the box of the ball b share a point
Touched(bs, b) == {i \in 1..Len(bs) : Overlap(BrickBox(bs[i]), BallBox(b))}

\* the brick assigns the horizontal component of the ball's velocity
OnX(mBrick, mBall) ==
    LET o == Overlaps(mBrick, mBall)
    IN Min(o.left, o.right) < Min(o.top, o.bottom)

\* the value the brick assigns to the component it assigns
Assigned(mBrick, mBall) ==
    LET o == Overlaps(mBrick, mBall)
    IN IF OnX(mBrick, mBall)
       THEN (IF o.left < o.right THEN -ballVelocity ELSE ballVelocity)
       ELSE (IF o.top < o.bottom THEN -ballVelocity ELSE ballVelocity)

\* the greatest element of a non-empty set of numbers
Last(S) == CHOOSE i \in S : \A j \in S : j <= i

\* the sequence bs without the elements whose indices are in S
RECURSIVE Without(_, _, _)
Without(bs, S, i) ==
    IF i > Len(bs) THEN <<>>
    ELSE (IF i \in S THEN <<>> ELSE <<bs[i]>>) \o Without(bs, S, i + 1)

\* C15: the brick tests of a step all see the ball where its move of that
\* step left it. They mark exactly the bricks whose box intersects
\* (inclusively) the ball's box at that position, whatever the order of the
\* collection and whatever earlier tests of the step did to the velocity,
\* and the erase of the step removes exactly those bricks; there may be more
\* than one. The tests do not move the ball, and each component of its
\* velocity afterwards is the value assigned by the last brick in collection
\* order that assigned that component (its old value if there is none), so
\* the last intersecting brick's assignment always stands.
C15_HitsOfOneStep ==
    [][/\ pc = "testBricks" =>
             LET I == Touched(bricks, ball)
                 X == {i \in I : OnX(bricks[i], ball)}
                 Y == I \ X
             IN /\ Destroyed(bricks) = {}
                /\ Len(bricks') = Len(bricks)
                /\ Destroyed(bricks') = I
                /\ ball'.x = ball.x
                /\ ball'.y = ball.y
                /\ ball'.vx = IF X = {} THEN ball.vx ELSE Assigned(bricks[Last(X)], ball)
                /\ ball'.vy = IF Y = {} THEN ball.vy ELSE Assigned(bricks[Last(Y)], ball)
       /\ pc = "erase" =>
             /\ Destroyed(bricks) = Touched(bricks, ball)
             /\ bricks' = Without(bricks, Touched(bricks, ball), 1)]_vars

\* the tests of one step have marked two bricks: the first one assigned the
\* vertical component of the velocity and the second one the horizontal
C15_Witness ==
    /\ pc = "erase"
    /\ Cardinality(Destroyed(bricks)) = 2
    /\ \E i, j \in Destroyed(bricks) :
          /\ i < j
          /\ ~OnX(bricks[i], ball)
          /\ OnX(bricks[j], ball)
    /\ ball.vx = -ballVelocity
    /\ ball.vy = ballVelocity

Order ==
    { <<"main", "while">>, <<"while", "input">>, <<"while", "done">>,
      <<"input", "update">>, <<"update", "for">>,
      <<"for", "ballUpdate">>, <<"ballUpdate", "paddleUpdate">>,
      <<"paddleUpdate", "testPaddle">>, <<"testPaddle", "testBricks">>,
      <<"testBricks", "erase">>, <<"erase", "for">>,
      <<"for", "draw">>, <<"draw", "measure">>, <<"measure", "while">> }

\* the positions inside updatePhase()
InUpdate == {"update", "for", "ballUpdate", "paddleUpdate", "testPaddle", "testBricks", "erase"}

\* C17: every iteration of the running loop calls inputPhase(), then
\* updatePhase(), then drawPhase(), each once and in that order; every step
\* of updatePhase() updates the ball, then the paddle, then runs the
\* paddle-ball test once, then the brick-ball tests over the collection in
\* order, starting from the ball the paddle test left (so a brick's
\* resolution is applied after the paddle's and over it), then erases the
\* destroyed bricks; and no drawPhase() sees a destroyed brick.
C17_OrderOfAnIteration ==
    [][/\ <<pc, pc'>> \in Order
       /\ pc \in {"input"} \cup InUpdate => (upd = iter - 1 /\ drw = iter - 1)
       /\ pc = "draw" => (upd = iter /\ drw = iter - 1 /\ Destroyed(bricks) = {})
       /\ pc \in {"measure", "while"} => (upd = iter /\ drw = iter)
       /\ pc = "ballUpdate" =>
             (ball' = BallUpdate(ball, ftStep) /\ paddle' = paddle /\ bricks' = bricks)
       /\ pc = "paddleUpdate" =>
             /\ paddle' = PaddleUpdate(paddle, ftStep, kb'.left, kb'.right)
             /\ ball' = ball
             /\ bricks' = bricks
       /\ pc = "testPaddle" =>
             (ball' = testCollisionPaddle(paddle, ball) /\ paddle' = paddle /\ bricks' = bricks)
       /\ pc = "testBricks" =>
             LET r == TestBricks(bricks, ball)
             IN bricks' = r.bricks /\ ball' = r.ball /\ paddle' = paddle
       /\ pc = "erase" =>
             /\ bricks' = EraseDestroyed(bricks)
             /\ ball' = ball
             /\ paddle' = paddle
             /\ steps' = steps + 1]_vars

\* drawPhase() is about to run after the inputPhase() and the updatePhase()
\* of its iteration, whose one step destroyed bricks that the erase of that
\* step has already removed
C17_Witness ==
    /\ pc = "draw"
    /\ upd = iter
    /\ drw = iter - 1
    /\ steps - call.steps = 1
    /\ call.steps = 0
    /\ hit # {}
    /\ Destroyed(bricks) = {}
    /\ Len(bricks) < Len(BrickGrid)

\* the bricks of a from the i-th on are, at the same positions and in the same
\* order, among the bricks of b from the j-th on
RECURSIVE IsSubPos(_, _, _, _)
IsSubPos(a, b, i, j) ==
    IF i > Len(a) THEN TRUE
    ELSE IF j > Len(b) THEN FALSE
    ELSE IF a[i].x = b[j].x /\ a[i].y = b[j].y THEN IsSubPos(a, b, i + 1, j + 1)
    ELSE IsSubPos(a, b, i, j + 1)

\* C18: the collection is built with countBlocksX * countBlocksY = 44 bricks;
\* afterwards it is always the constructed grid less some bricks, each at the
\* position and in the relative order it was built with; no step of the
\* program makes it longer, adds a position or moves a brick, and what a
\* step leaves is what it found less the removed bricks, in the same order.
\* Only the erase of a step makes it shorter.
C18_BricksOnlyShrink ==
    [][/\ pc = "main" => Len(bricks) = countBlocksX * countBlocksY
       /\ IsSubPos(bricks, BrickGrid, 1, 1)
       /\ \/ bricks' = bricks
          \/ /\ Len(bricks') <= Len(bricks)
             /\ IsSubPos(bricks', bricks, 1, 1)
       /\ Len(bricks') < Len(bricks) => pc = "erase"]_vars

\* an erase has just removed two bricks from the middle of the full grid
C18_Witness ==
    /\ pc = "for"
    /\ steps >= 1
    /\ Len(bricks) = countBlocksX * countBlocksY - 2
    /\ Cardinality(hit) = 2
    /\ Positions(bricks) \cap hit = {}
    /\ IsSubPos(bricks, BrickGrid, 1, 1)

\* C19: an updatePhase() adds to the accumulator the value lastFT has when
\* it is called, and lastFT is written only by the measurement that ends an
\* iteration: iteration n simulates the time iteration n - 1 measured. From
\* the constructed game (lastFT = currentSlice = 0) the first iteration adds
\* nothing and executes no step, so its drawPhase() sees the paddle and the
\* bricks as constructed and the ball as constructed or as Space reset it.
C19_OneFrameBehind ==
    [][/\ pc = "update" => currentSlice' = currentSlice + lastFT
       /\ lastFT' # lastFT => pc = "measure"
       /\ (iter = 1 /\ pc \in {"input"} \cup InUpdate) =>
             (lastFT = 0 /\ currentSlice = 0 /\ currentSlice' = 0 /\ steps' = 0)
       /\ (iter = 1 /\ pc = "draw") =>
             /\ steps = 0
             /\ paddle = Constructed.paddle
             /\ bricks = Constructed.bricks
             /\ ball \in {Constructed.ball, resetBall(Constructed.ball)}]_vars

\* the first iteration measured two slices and drew the constructed game;
\* the second one has executed the two steps of that time and is about to draw
C19_Witness ==
    /\ pc = "draw"
    /\ iter = 2
    /\ lastFT = 2 * ftSlice
    /\ call.acc = 2 * ftSlice
    /\ call.steps = 0
    /\ steps = 2
    /\ ball # Constructed.ball

=============================================================================
